---- MODULE Spec2Model ----
\* A model of mmap-wrapper: the direct-syscall backend (src/src/no_std.rs,
\* src/src/backend/no_std.rs) over a small model of the POSIX calls it makes,
\* and the reference-counted backend (src/src/memmap2.rs).
EXTENDS Integers, Sequences, FiniteSets, TLC

\* ------------------------------------------------------------------ bounds
\* Number of accessors the client program holds at a time.
MaxAcc == 2
\* size_of::<T>() in bytes, for the one type T the client maps.
SizeT == 2
\* The descriptors the process may have open beyond stdin, stdout and stderr
\* (RLIMIT_NOFILE - 3).
MaxFd == 3

\* ------------------------------------------------------- program constants
O_RDONLY == 0
O_RDWR == 2
O_CREAT == 64
PROT_READ == 1
PROT_WRITE == 2
MAP_SHARED == 1
\* !0 as *mut c_void: the all-ones address, written here as -1.
MAP_FAILED == -1
\* ptr::null_mut()
NULL == 0
\* 0o644
CreateMode == 420

\* ------------------------------------------------------------ the OS model
Paths == {1}
Bytes == {0, 1}
\* The addresses the kernel hands out for a mapping; a freed one may be reused.
Addrs == {1, 2}
Fds == 3..(2 + MaxFd)
\* A file is at most one byte longer than T; it lies within one page.
PageLen == SizeT + 1
Flags == {TRUE, FALSE}

\* bit b (a power of two) of x
Bit(x, b) == (x \div b) % 2 = 1

RECURSIVE BitOrFrom(_, _, _)
BitOrFrom(a, b, w) ==
    IF a = 0 /\ b = 0 THEN 0
    ELSE (IF a % 2 = 1 \/ b % 2 = 1 THEN w ELSE 0)
         + BitOrFrom(a \div 2, b \div 2, 2 * w)

\* a | b on non-negative c_int values
BitOr(a, b) == BitOrFrom(a, b, 1)

Min(a, b) == IF a < b THEN a ELSE b

NoFile == [exists |-> FALSE, len |-> 0, mode |-> 0, data |-> [i \in 1..PageLen |-> 0]]
ClosedFd == [open |-> FALSE, path |-> 0, acc |-> 0]
\* Nothing is mapped at an address.
NoRegion == [mapped |-> FALSE, path |-> 0, len |-> 0, prot |-> 0, flags |-> 0, cow |-> FALSE,
             priv |-> [i \in 1..PageLen |-> 0]]

\* The lowest descriptor not in use, 0 when the table is full (EMFILE).
LowestFree(fdt) ==
    IF \E f \in Fds : ~fdt[f].open
    THEN CHOOSE f \in Fds : ~fdt[f].open /\ \A g \in Fds : g < f => fdt[g].open
    ELSE 0

\* open(2): -1 on failure; O_CREAT creates an absent file, empty, with `mode`.
SysOpen(fs, fdt, path, flags, mode, fail) ==
    LET fd == LowestFree(fdt) IN
    IF fail \/ fd = 0 \/ (~fs[path].exists /\ ~Bit(flags, O_CREAT))
    THEN [ret |-> -1, fs |-> fs, fdt |-> fdt]
    ELSE [ret |-> fd,
          fs |-> IF fs[path].exists THEN fs
                 ELSE [fs EXCEPT ![path] = [NoFile EXCEPT !.exists = TRUE, !.mode = mode]],
          fdt |-> [fdt EXCEPT ![fd] = [open |-> TRUE, path |-> path, acc |-> flags % 4]]]

\* ftruncate(2): needs a descriptor open for writing (EINVAL/EBADF otherwise);
\* sets the length, the bytes beyond the shorter length read as zero.
SysFtruncate(fs, fdt, fd, length, fail) ==
    IF fail \/ fd \notin Fds \/ ~fdt[fd].open \/ fdt[fd].acc = O_RDONLY \/ length > PageLen
    THEN [ret |-> -1, fs |-> fs]
    ELSE LET p == fdt[fd].path
             keep == Min(fs[p].len, length) IN
         [ret |-> 0,
          fs |-> [fs EXCEPT ![p].len = length,
                            ![p].data = [i \in 1..PageLen |->
                                           IF i <= keep THEN fs[p].data[i] ELSE 0]]]

\* mmap(2): MAP_FAILED on failure (ENOMEM, EBADF, EACCES: a shared writable
\* mapping needs a descriptor open read-write); otherwise the kernel's choice
\* `addr` of a free address now maps `length` bytes of the file.
SysMmap(vm, fdt, hint, length, prot, flags, fd, offset, fail, addr) ==
    IF \/ fail
       \/ fd \notin Fds
       \/ ~fdt[fd].open
       \/ length = 0
       \/ addr \notin Addrs
       \/ vm[addr].mapped
       \/ (Bit(prot, PROT_WRITE) /\ Bit(flags, MAP_SHARED) /\ fdt[fd].acc # O_RDWR)
    THEN [ret |-> MAP_FAILED, vm |-> vm]
    ELSE [ret |-> addr,
          vm |-> [vm EXCEPT ![addr] = [mapped |-> TRUE, path |-> fdt[fd].path, len |-> length,
                                       prot |-> prot, flags |-> flags, cow |-> FALSE,
                                       priv |-> [i \in 1..PageLen |-> 0]]]]

\* munmap(2): the pages at addr, whatever mapping they now belong to, are
\* unmapped; it is not an error if nothing is mapped there. When it fails
\* (EINVAL, ENOMEM) it returns -1 and unmaps nothing.
SysMunmap(vm, addr, length, fail) ==
    IF fail \/ addr \notin Addrs \/ length = 0
    THEN [ret |-> -1, vm |-> vm]
    ELSE [ret |-> 0, vm |-> [vm EXCEPT ![addr] = NoRegion]]

\* close(2)
SysClose(fdt, fd) ==
    IF fd \in Fds THEN [fdt EXCEPT ![fd] = ClosedFd] ELSE fdt

\* One entry of the trace of OS calls a map() call makes.
Call(fn, args, ret) == [fn |-> fn, args |-> args, ret |-> ret]

\* ---------------------------------------------------------------- state
VARIABLES
    fs,         \* the filesystem: path -> file
    fdt,        \* the process's descriptor table
    vm,         \* the process's address space: address -> the region mapped there
    acc,        \* the accessors the client holds, oldest first
    builder,    \* the MmapWrapperBuilder the client holds, if any
    fault,      \* "none", or the signal that killed the process
    last,       \* the last operation: what it was given and what it did
    arc,        \* memmap2.rs: the ArcInner<MmapMut> the shared wrappers point to
    wr,         \* memmap2.rs: the shared wrappers: where each is in its life
    holds       \* memmap2.rs: thread -> it holds a live &mut T from get_inner

direct == <<fs, fdt, vm, acc, builder, fault, last>>
shared == <<arc, wr, holds>>
vars == <<fs, fdt, vm, acc, builder, fault, last, arc, wr, holds>>

\* The positions of the accessors the client holds.
Slots == 1..Len(acc)
NoBuilder == [set |-> FALSE, path |-> 0, write |-> FALSE, truncate |-> FALSE]
NoValue == [i \in 1..SizeT |-> 0]
\* The values of T the client writes: every byte the same.
Values == {[i \in 1..SizeT |-> b] : b \in Bytes}

NoLast == [op |-> "init", slot |-> 0, path |-> 0, write |-> FALSE, truncate |-> FALSE,
           ok |-> FALSE, ret |-> 0, calls |-> <<>>, pre |-> NoFile, val |-> NoValue,
           unmaps |-> 0]

\* A file that exists before the program starts: `n` bytes, all ones.
OldFile(n) == [exists |-> TRUE, len |-> n, mode |-> CreateMode,
               data |-> [i \in 1..PageLen |-> IF i <= n THEN 1 ELSE 0]]

\* ------------------------------------------------- MmapWrapper::map, by step
\* no_std.rs:147-148: the flags open is called with.
OpenFlags(write) == BitOr(O_CREAT, IF write THEN O_RDWR ELSE O_RDONLY)

\* A slip in the length: one byte more than T.
TruncateLenOneMore == SizeT + 1

\* no_std.rs:155: the length ftruncate is called with.
TruncateLen == SizeT

\* A protection that does not look at the write flag.
MmapProtReadWrite(write) == BitOr(PROT_READ, PROT_WRITE)

\* no_std.rs:162-166: the protection of the mapping.
MmapProt(write) == IF write THEN BitOr(PROT_READ, PROT_WRITE) ELSE PROT_READ

\* no_std.rs:172: the sharing mode of the mapping.
MmapFlags == MAP_SHARED

\* no_std.rs:150-152: open failed.
MapOpenFailed(o, fd, calls, vm0) ==
    [ok |-> FALSE, ret |-> fd, fs |-> o.fs, fdt |-> o.fdt, vm |-> vm0,
     calls |-> calls]

\* no_std.rs:156-159: ftruncate failed: close the descriptor, return its status.
MapTruncateFailed(t, fdt0, fd, res, calls, vm0) ==
    [ok |-> FALSE, ret |-> res, fs |-> t.fs, fdt |-> SysClose(fdt0, fd), vm |-> vm0, calls |-> Append(calls, Call("close", <<fd>>, 0))]

\* The error path without its close: the descriptor stays open.
MapMmapFailedNoClose(t, fdt0, fd, calls, vm0) ==
    [ok |-> FALSE, ret |-> -1, fs |-> t.fs, fdt |-> fdt0, vm |-> vm0, calls |-> calls]

\* no_std.rs:178-181: mmap returned MAP_FAILED: close the descriptor, return -1.
MapMmapFailed(t, fdt0, fd, calls, vm0) ==
    [ok |-> FALSE, ret |-> -1, fs |-> t.fs, fdt |-> SysClose(fdt0, fd), vm |-> vm0, calls |-> Append(calls, Call("close", <<fd>>, 0))]

\* no_std.rs:183: the mapped address is returned; the descriptor stays as it is.
MapOk(t, m, fdt0, fd, calls) ==
    [ok |-> TRUE, ret |-> m.ret, fs |-> t.fs, fdt |-> fdt0, vm |-> m.vm, calls |-> calls]

\* no_std.rs:178-183: what map returns once mmap has returned m.
MapMmapResult(t, fdt0, vm0, fd, mmap_prot, calls, m) ==
    IF m.ret = MAP_FAILED
    THEN MapMmapFailed(t, fdt0, fd,
                       Append(calls, Call("mmap", <<NULL, SizeT, mmap_prot, MmapFlags, fd, 0>>,
                                          m.ret)), vm0)
    ELSE MapOk(t, m, fdt0, fd,
               Append(calls, Call("mmap", <<NULL, SizeT, mmap_prot, MmapFlags, fd, 0>>,
                                  m.ret)))

\* no_std.rs:162-184: the mmap call and what map returns after it; t is the
\* state ftruncate left, calls the trace so far.
MapMmap(t, fdt0, vm0, fd, mmap_prot, calls, env) ==
    MapMmapResult(t, fdt0, vm0, fd, mmap_prot, calls,
                  SysMmap(vm0, fdt0, NULL, SizeT, mmap_prot, MmapFlags, fd, 0,
                          env.mmapFail, env.addr))

\* A map that goes on to mmap whatever ftruncate returned.
MapTruncateResultGoOn(t, fdt0, vm0, fd, write, calls, env) ==
    MapMmap(t, fdt0, vm0, fd, MmapProt(write),
            Append(calls, Call("ftruncate", <<fd, SizeT>>, t.ret)), env)

\* no_std.rs:156-160: what map does once ftruncate has returned t.
MapTruncateResult(t, fdt0, vm0, fd, write, calls, env) ==
    IF t.ret < 0
    THEN MapTruncateFailed(t, fdt0, fd, t.ret,
                           Append(calls, Call("ftruncate", <<fd, TruncateLen>>, t.ret)), vm0)
    ELSE MapMmap(t, fdt0, vm0, fd, MmapProt(write),
                 Append(calls, Call("ftruncate", <<fd, TruncateLen>>, t.ret)), env)

\* A map that resizes the file whether or not truncate is set.
MapTruncateAlways(o, vm0, fd, write, truncate, calls, env) ==
    MapTruncateResult(SysFtruncate(o.fs, o.fdt, fd, TruncateLen, env.truncFail),
                      o.fdt, vm0, fd, write, calls, env)

\* no_std.rs:154-160: the ftruncate call, made only if truncate is set.
MapTruncate(o, vm0, fd, write, truncate, calls, env) ==
    IF truncate
    THEN MapTruncateResult(SysFtruncate(o.fs, o.fdt, fd, TruncateLen, env.truncFail),
                           o.fdt, vm0, fd, write, calls, env)
    ELSE MapMmap([ret |-> 0, fs |-> o.fs], o.fdt, vm0, fd, MmapProt(write), calls, env)

\* no_std.rs:146-152: the open call.
MapOpen(o, vm0, path, oflags, write, truncate, env) ==
    IF o.ret < 0
    THEN MapOpenFailed(o, o.ret, <<Call("open", <<path, oflags, CreateMode>>, o.ret)>>, vm0)
    ELSE MapTruncate(o, vm0, o.ret, write, truncate,
                     <<Call("open", <<path, oflags, CreateMode>>, o.ret)>>, env)

\* MmapWrapper::<T>::map(path, write, truncate), in the OS state (fs0, fdt0, vm0);
\* env is what the OS decides: which calls fail, which address mmap picks.
Map(fs0, fdt0, vm0, path, write, truncate, env) ==
    MapOpen(SysOpen(fs0, fdt0, path, OpenFlags(write), CreateMode, env.openFail),
            vm0, path, OpenFlags(write), write, truncate, env)

\* What the OS may decide during one map() call.
FreeAddrs == {a \in Addrs : ~vm[a].mapped}
\* Either no call fails for a reason outside the model and mmap picks a free
\* address (none free: ENOMEM), or the first call to fail is the one named.
Envs(truncate) ==
        {[openFail |-> FALSE, truncFail |-> FALSE, mmapFail |-> FALSE, addr |-> a] :
            a \in IF FreeAddrs = {} THEN {0} ELSE FreeAddrs}
        \cup {[openFail |-> TRUE, truncFail |-> FALSE, mmapFail |-> FALSE, addr |-> 0],
              [openFail |-> FALSE, truncFail |-> FALSE, mmapFail |-> TRUE, addr |-> 0]}
        \cup IF truncate
             THEN {[openFail |-> FALSE, truncFail |-> TRUE, mmapFail |-> FALSE, addr |-> 0]}
             ELSE {}

\* --------------------------------------------------- memory through a region
\* A store of the T value v at address a: SIGSEGV if nothing is mapped there or
\* the mapping is not writable, SIGBUS if no byte of the file lies under the page;
\* a shared mapping writes the file's page, a private one its own copy.
Store(fs0, vm0, a, v) ==
    IF a \notin Addrs \/ ~vm0[a].mapped \/ ~Bit(vm0[a].prot, PROT_WRITE)
    THEN [fault |-> "SIGSEGV", fs |-> fs0, vm |-> vm0]
    ELSE LET r == vm0[a] IN
         IF fs0[r.path].len = 0
         THEN [fault |-> "SIGBUS", fs |-> fs0, vm |-> vm0]
         ELSE IF Bit(r.flags, MAP_SHARED)
         THEN [fault |-> "none",
               fs |-> [fs0 EXCEPT ![r.path].data =
                          [i \in 1..PageLen |-> IF i <= r.len THEN v[i] ELSE @[i]]],
               vm |-> vm0]
         ELSE [fault |-> "none", fs |-> fs0,
               vm |-> [vm0 EXCEPT ![a].cow = TRUE,
                                  ![a].priv = [i \in 1..PageLen |->
                                      IF i <= r.len THEN v[i] ELSE fs0[r.path].data[i]]]]

\* A load of a T value from address a.
Load(fs0, vm0, a) ==
    IF a \notin Addrs \/ ~vm0[a].mapped \/ ~Bit(vm0[a].prot, PROT_READ)
    THEN [fault |-> "SIGSEGV", val |-> NoValue]
    ELSE LET r == vm0[a] IN
         IF fs0[r.path].len = 0
         THEN [fault |-> "SIGBUS", val |-> NoValue]
         ELSE [fault |-> "none",
               val |-> [i \in 1..SizeT |->
                           IF r.cow THEN r.priv[i] ELSE fs0[r.path].data[i]]]

\* ------------------------------------------------------------- the wrappers
\* MmapWrapper { raw, _inner }. path and unmaps are not fields of the struct:
\* path is the path the region was mapped from, unmaps the number of munmap
\* calls made on the region since mmap returned it.
ReadOnly(raw, path, unmaps) == [kind |-> "ro", raw |-> raw, path |-> path, unmaps |-> unmaps]

\* MmapMutWrapper { raw, _inner }
Mutable(raw, path, unmaps) == [kind |-> "mut", raw |-> raw, path |-> path, unmaps |-> unmaps]

\* A drop that never calls munmap.
DropAddrNull(a) == NULL

\* Drop for MmapWrapper / MmapMutWrapper: the address munmap is called with,
\* NULL when it is not called.
DropAddr(a) == IF a.raw # NULL THEN a.raw ELSE NULL

\* What munmap returned when drop(a) called it with the address addr.
DropUnmapped(addr, m) ==
    [vm |-> m.vm, calls |-> <<Call("munmap", <<addr, SizeT>>, m.ret)>>]

\* drop(a): the address space after it and the OS call it made; the status
\* munmap returns is not looked at.
DropWrapper(a, vm0, fail) ==
    IF DropAddr(a) # NULL
    THEN DropUnmapped(DropAddr(a), SysMunmap(vm0, DropAddr(a), SizeT, fail))
    ELSE [vm |-> vm0, calls |-> <<>>]

\* MmapWrapper::make_mut(self): the wrapper it returns; raw is a Copy field, so
\* self is still whole when the function ends, and is dropped there.
MakeMutWrapper(a) == Mutable(a.raw, a.path, a.unmaps)

\* The accessors after munmap(addr): the one whose region was mapped there has
\* had its region unmapped once more.
Unmapped(accs, addr) ==
    [s \in DOMAIN accs |->
        IF addr # NULL /\ accs[s].raw = addr /\ accs[s].unmaps = 0
        THEN [accs[s] EXCEPT !.unmaps = 1]
        ELSE accs[s]]

\* ----------------------------------------------------------------- actions
DirectInit ==
    /\ fs \in [Paths -> {NoFile, OldFile(1), OldFile(PageLen)}]
    /\ fdt = [f \in Fds |-> ClosedFd]
    /\ vm = [a \in Addrs |-> NoRegion]
    /\ acc = <<>>
    /\ builder = NoBuilder
    /\ fault = "none"
    /\ last = NoLast

\* The accessors without the one at position s.
Without(accs, s) == [i \in 1..(Len(accs) - 1) |-> IF i < s THEN accs[i] ELSE accs[i + 1]]

\* A constructor that wraps what map returned without looking at Ok or Err.
ConstructedUnchecked(mutable, path, write, truncate, r) ==
    /\ fs' = r.fs
    /\ fdt' = r.fdt
    /\ vm' = r.vm
    /\ acc' = Append(acc, IF mutable THEN Mutable(r.ret, path, 0)
                                     ELSE ReadOnly(r.ret, path, 0))
    /\ last' = [NoLast EXCEPT !.op = "map", !.slot = Len(acc) + 1, !.path = path,
                              !.write = write, !.truncate = truncate, !.ok = r.ok,
                              !.ret = r.ret, !.calls = r.calls, !.pre = fs[path]]

\* The state after a constructor whose map call returned r: the address is
\* wrapped if map returned Ok (the ? operator).
Constructed(mutable, path, write, truncate, r) ==
    /\ fs' = r.fs
    /\ fdt' = r.fdt
    /\ vm' = r.vm
    /\ acc' = IF r.ok
              THEN Append(acc, IF mutable THEN Mutable(r.ret, path, 0)
                                          ELSE ReadOnly(r.ret, path, 0))
              ELSE acc
    /\ last' = [NoLast EXCEPT !.op = "map", !.slot = Len(acc) + 1, !.path = path,
                              !.write = write, !.truncate = truncate, !.ok = r.ok,
                              !.ret = r.ret, !.calls = r.calls, !.pre = fs[path]]

\* A constructor: MmapWrapper::new or MmapMutWrapper::new.
Construct(mutable, path, write, truncate) ==
    /\ fault = "none"
    /\ Len(acc) < MaxAcc
    /\ \E env \in Envs(truncate) :
         Constructed(mutable, path, write, truncate,
                     Map(fs, fdt, vm, path, write, truncate, env))
    /\ UNCHANGED fault
    /\ UNCHANGED shared

\* MmapWrapper::new(path, write, truncate)
New(path, write, truncate) ==
    /\ Construct(FALSE, path, write, truncate)
    /\ UNCHANGED builder

\* MmapMutWrapper::new(path, write, truncate)
NewMut(path, write, truncate) ==
    /\ Construct(TRUE, path, write, truncate)
    /\ UNCHANGED builder

\* MmapWrapperBuilder { path, write, truncate, _inner } as new(path) makes it.
BuilderInit(path) == [set |-> TRUE, path |-> path, write |-> FALSE, truncate |-> FALSE]

\* A write(value) that starts from a fresh builder for the same path.
BuilderWithWriteReset(b, value) == [BuilderInit(b.path) EXCEPT !.write = value]

\* self.write = value; self
BuilderWithWrite(b, value) == [b EXCEPT !.write = value]

\* self.truncate = value; self
BuilderWithTruncate(b, value) == [b EXCEPT !.truncate = value]

\* MmapWrapperBuilder::new(path)
BuilderNew(path) ==
    /\ fault = "none"
    /\ ~builder.set
    /\ builder' = BuilderInit(path)
    /\ last' = [NoLast EXCEPT !.op = "builder_new", !.path = path]
    /\ UNCHANGED <<fs, fdt, vm, acc, fault>>
    /\ UNCHANGED shared

\* MmapWrapperBuilder::write(value)
BuilderWrite(value) ==
    /\ fault = "none"
    /\ builder.set
    /\ builder' = BuilderWithWrite(builder, value)
    /\ last' = [NoLast EXCEPT !.op = "builder_write", !.write = value]
    /\ UNCHANGED <<fs, fdt, vm, acc, fault>>
    /\ UNCHANGED shared

\* MmapWrapperBuilder::truncate(value)
BuilderTruncate(value) ==
    /\ fault = "none"
    /\ builder.set
    /\ builder' = BuilderWithTruncate(builder, value)
    /\ last' = [NoLast EXCEPT !.op = "builder_truncate", !.truncate = value]
    /\ UNCHANGED <<fs, fdt, vm, acc, fault>>
    /\ UNCHANGED shared

\* MmapWrapperBuilder::build(self)
Build ==
    /\ builder.set
    /\ Construct(FALSE, builder.path, builder.write, builder.truncate)
    /\ builder' = NoBuilder

\* MmapWrapperBuilder::build_mut(self)
BuildMut ==
    /\ builder.set
    /\ Construct(TRUE, builder.path, builder.write, builder.truncate)
    /\ builder' = NoBuilder

\* MmapWrapper::make_mut(self): builds the mutable wrapper from self.raw, then
\* self goes out of scope and its Drop runs; fail: the OS makes its munmap fail.
MakeMut(s, fail) ==
    /\ fault = "none"
    /\ acc[s].kind = "ro"
    /\ acc' = Unmapped([acc EXCEPT ![s] = MakeMutWrapper(acc[s])], DropAddr(acc[s]))
    /\ vm' = DropWrapper(acc[s], vm, fail).vm
    /\ last' = [NoLast EXCEPT !.op = "make_mut", !.slot = s]
    /\ UNCHANGED <<fs, fdt, builder, fault>>
    /\ UNCHANGED shared

\* The client drops the accessor in slot s; fail: the OS makes munmap fail.
Drop(s, fail) ==
    /\ fault = "none"
    /\ acc' = Unmapped(Without(acc, s), DropAddr(acc[s]))
    /\ LET d == DropWrapper(acc[s], vm, fail) IN
         /\ vm' = d.vm
         /\ last' = [NoLast EXCEPT !.op = "drop", !.slot = s, !.calls = d.calls,
                                   !.unmaps = acc[s].unmaps + Len(d.calls)]
    /\ UNCHANGED <<fs, fdt, builder, fault>>
    /\ UNCHANGED shared

\* *accessor.get_inner() = v through the MmapMutWrapper in slot s.
Write(s, v) ==
    /\ fault = "none"
    /\ acc[s].kind = "mut"
    /\ LET w == Store(fs, vm, acc[s].raw, v) IN
       /\ fs' = w.fs
       /\ vm' = w.vm
       /\ fault' = w.fault
    /\ last' = [NoLast EXCEPT !.op = "write", !.slot = s, !.val = v]
    /\ UNCHANGED <<fdt, acc, builder>>
    /\ UNCHANGED shared

\* ------------------------------ the flag-less variant (backend/no_std.rs)
\* An open that does not create the file.
BackendOpenFlagsNoCreate == O_RDWR

\* backend/no_std.rs:67: O_RDWR | O_CREAT
BackendOpenFlags == BitOr(O_RDWR, O_CREAT)

\* backend/no_std.rs:82: PROT_READ | PROT_WRITE
BackendProt == BitOr(PROT_READ, PROT_WRITE)

\* backend/no_std.rs:89-94: what map returns once mmap has returned m.
BackendMapMmapResult(t, fdt0, vm0, fd, calls, m) ==
    IF m.ret = MAP_FAILED
    THEN [ok |-> FALSE, ret |-> -1, fs |-> t.fs, fdt |-> SysClose(fdt0, fd), vm |-> vm0,
          calls |-> calls \o <<Call("mmap", <<NULL, SizeT, BackendProt, MAP_SHARED, fd, 0>>, m.ret),
                               Call("close", <<fd>>, 0)>>]
    ELSE [ok |-> TRUE, ret |-> m.ret, fs |-> t.fs, fdt |-> fdt0, vm |-> m.vm,
          calls |-> Append(calls,
                           Call("mmap", <<NULL, SizeT, BackendProt, MAP_SHARED, fd, 0>>, m.ret))]

\* backend/no_std.rs:72-94: what map does once ftruncate has returned t.
BackendMapTruncateResult(t, fdt0, vm0, fd, calls, env) ==
    IF t.ret < 0
    THEN [ok |-> FALSE, ret |-> t.ret, fs |-> t.fs, fdt |-> SysClose(fdt0, fd), vm |-> vm0,
          calls |-> calls \o <<Call("ftruncate", <<fd, SizeT>>, t.ret),
                               Call("close", <<fd>>, 0)>>]
    ELSE BackendMapMmapResult(t, fdt0, vm0, fd,
                              Append(calls, Call("ftruncate", <<fd, SizeT>>, t.ret)),
                              SysMmap(vm0, fdt0, NULL, SizeT, BackendProt, MAP_SHARED, fd, 0,
                                      env.mmapFail, env.addr))

\* backend/no_std.rs:67-76: what map does once open has returned o.
BackendMapOpen(o, vm0, path, env) ==
    IF o.ret < 0
    THEN [ok |-> FALSE, ret |-> o.ret, fs |-> o.fs, fdt |-> o.fdt, vm |-> vm0,
          calls |-> <<Call("open", <<path, BackendOpenFlags, CreateMode>>, o.ret)>>]
    ELSE BackendMapTruncateResult(SysFtruncate(o.fs, o.fdt, o.ret, SizeT, env.truncFail),
                                  o.fdt, vm0, o.ret,
                                  <<Call("open", <<path, BackendOpenFlags, CreateMode>>, o.ret)>>,
                                  env)

\* MmapWrapper::<T>::map(path) of the flag-less variant.
BackendMap(fs0, fdt0, vm0, path, env) ==
    BackendMapOpen(SysOpen(fs0, fdt0, path, BackendOpenFlags, CreateMode, env.openFail),
                   vm0, path, env)

\* A constructor of the flag-less variant; what it did is recorded with the
\* flags its map is written for: write and truncate both set.
BackendConstruct(mutable, path) ==
    /\ fault = "none"
    /\ Len(acc) < MaxAcc
    /\ \E env \in Envs(TRUE) :
         Constructed(mutable, path, TRUE, TRUE, BackendMap(fs, fdt, vm, path, env))
    /\ UNCHANGED <<fault, builder>>
    /\ UNCHANGED shared

\* backend/no_std.rs: MmapWrapper::new(path)
BackendNew(path) == BackendConstruct(FALSE, path)

\* backend/no_std.rs: MmapMutWrapper::new(path)
BackendNewMut(path) == BackendConstruct(TRUE, path)

\* The flag-less variant: its make_mut, Drop and get_inner have the bodies of
\* the flagged variant's.
BackendNext ==
    \/ \E p \in Paths : BackendNew(p)
    \/ \E p \in Paths : BackendNewMut(p)
    \/ \E s \in Slots : MakeMut(s, FALSE)
    \/ \E s \in Slots : Drop(s, FALSE)
    \/ \E s \in Slots, v \in Values : Write(s, v)

\* The direct-syscall backend (feature no_std), on an OS whose munmap of a
\* page-aligned address with a non-zero length does not fail.
Next ==
    \/ \E p \in Paths, w \in Flags, t \in Flags : New(p, w, t)
    \/ \E p \in Paths, w \in Flags, t \in Flags : NewMut(p, w, t)
    \/ \E s \in Slots : MakeMut(s, FALSE)
    \/ \E s \in Slots : Drop(s, FALSE)
    \/ \E s \in Slots, v \in Values : Write(s, v)


\* ------------------------------------------ the shared backend (memmap2.rs)
\* The wrappers that can exist in one behaviour (the first and its clones).
MaxWrappers == 3
Threads == {1, 2}
Wrappers == 1..MaxWrappers

NoArc == [made |-> FALSE, strong |-> 0, mapped |-> FALSE, unmaps |-> 0]
NoWrapper == [st |-> "none", th |-> 0]

SharedIdle ==
    /\ arc = NoArc
    /\ wr = [w \in Wrappers |-> NoWrapper]
    /\ holds = [t \in Threads |-> FALSE]

\* MmapMutWrapper::new(m): Arc::new(m), a strong count of one over the mapping.
ArcNew == [made |-> TRUE, strong |-> 1, mapped |-> TRUE, unmaps |-> 0]

\* A clone that copies the pointer and leaves the count alone.
ArcCloneUncounted(a) == a

\* Clone for MmapMutWrapper: self.raw.clone(), one more strong reference.
ArcClone(a) == [a EXCEPT !.strong = @ + 1]

\* Dropping a wrapper drops its Arc: the strong count is decremented atomically.
ArcDecrement(a) == [a EXCEPT !.strong = @ - 1]

\* The owner that took the count to zero drops the MmapMut, which unmaps.
ArcRelease(a) == [a EXCEPT !.mapped = FALSE, !.unmaps = @ + 1]

\* MmapMutWrapper::new(m), on the main thread.
SharedNew ==
    /\ ~arc.made
    /\ arc' = ArcNew
    /\ wr' = [wr EXCEPT ![1] = [st |-> "live", th |-> 1]]
    /\ UNCHANGED holds
    /\ UNCHANGED direct

\* w.clone(): the clone is a new wrapper owned by the cloning thread.
SharedClone(w, c) ==
    /\ wr[w].st = "live"
    /\ wr[c].st = "none"
    /\ \A d \in Wrappers : d < c => wr[d].st # "none"
    /\ arc' = ArcClone(arc)
    /\ wr' = [wr EXCEPT ![c] = [st |-> "live", th |-> wr[w].th]]
    /\ UNCHANGED holds
    /\ UNCHANGED direct

\* thread::spawn(move || ...): a wrapper is moved to another thread.
SharedMove(w, t) ==
    /\ wr[w].st = "live"
    /\ wr[w].th # t
    /\ wr' = [wr EXCEPT ![w].th = t]
    /\ UNCHANGED <<arc, holds>>
    /\ UNCHANGED direct

\* w.get_inner(): the owning thread gets a &'a mut T, for any lifetime 'a.
SharedGetInner(w) ==
    /\ wr[w].st = "live"
    /\ holds' = [holds EXCEPT ![wr[w].th] = TRUE]
    /\ UNCHANGED <<arc, wr>>
    /\ UNCHANGED direct

\* The thread lets go of the references it holds.
SharedRefEnd(t) ==
    /\ holds[t]
    /\ holds' = [holds EXCEPT ![t] = FALSE]
    /\ UNCHANGED <<arc, wr>>
    /\ UNCHANGED direct

\* drop(w), first step: the strong count is decremented; the wrapper that saw
\* the count at one goes on to release the mapping.
SharedDrop(w) ==
    /\ wr[w].st = "live"
    /\ arc' = ArcDecrement(arc)
    /\ wr' = [wr EXCEPT ![w].st = IF arc.strong = 1 THEN "releasing" ELSE "dropped"]
    /\ UNCHANGED holds
    /\ UNCHANGED direct

\* drop(w), second step, for the last owner: the MmapMut is dropped.
SharedRelease(w) ==
    /\ wr[w].st = "releasing"
    /\ arc' = ArcRelease(arc)
    /\ wr' = [wr EXCEPT ![w].st = "dropped"]
    /\ UNCHANGED holds
    /\ UNCHANGED direct

SharedNext ==
    \/ SharedNew
    \/ \E w \in Wrappers, c \in Wrappers : SharedClone(w, c)
    \/ \E w \in Wrappers, t \in Threads : SharedMove(w, t)
    \/ \E w \in Wrappers : SharedGetInner(w)
    \/ \E t \in Threads : SharedRefEnd(t)
    \/ \E w \in Wrappers : SharedDrop(w)
    \/ \E w \in Wrappers : SharedRelease(w)

\* ------------------------------------------------------- the specifications
Init == DirectInit /\ SharedIdle

Spec == Init /\ [][Next]_vars

\* The client of the direct-syscall backend that goes through the builder to
\* construct its accessors, and drops them.
BuilderNext ==
    \/ \E p \in Paths : BuilderNew(p)
    \/ \E v \in Flags : BuilderWrite(v)
    \/ \E v \in Flags : BuilderTruncate(v)
    \/ Build
    \/ BuildMut
    \/ \E s \in Slots : Drop(s, FALSE)

SpecBuilder == Init /\ [][BuilderNext]_vars

\* The client that constructs read-only accessors, converts them to mutable
\* ones and drops both kinds, on an OS whose munmap may fail.
DropNext ==
    \/ \E p \in Paths, w \in Flags, t \in Flags : New(p, w, t)
    \/ \E s \in Slots, fail \in Flags : MakeMut(s, fail)
    \/ \E s \in Slots, fail \in Flags : Drop(s, fail)

SpecDrop == Init /\ [][DropNext]_vars

\* The client of the flag-less variant of the direct-syscall backend.
SpecBackend == Init /\ [][BackendNext]_vars

\* The reference-counted backend (the default feature).
SharedInit ==
    /\ fs = [p \in Paths |-> NoFile]
    /\ fdt = [f \in Fds |-> ClosedFd]
    /\ vm = [a \in Addrs |-> NoRegion]
    /\ acc = <<>>
    /\ builder = NoBuilder
    /\ fault = "none"
    /\ last = NoLast
    /\ SharedIdle

SpecShared == SharedInit /\ [][SharedNext]_vars

\* ------------------------------------------------------------------ claims
Failed(c) == \/ c.fn \in {"open", "ftruncate"} /\ c.ret < 0
             \/ c.fn = "mmap" /\ c.ret = MAP_FAILED
CloseCalls(calls) == {i \in 1..Len(calls) : calls[i].fn = "close"}
Zeros == [i \in 1..SizeT |-> 0]

\* C1 (as claimed): every region mmap returned is released by munmap exactly
\* once: when an accessor is dropped, the munmap its drop makes is the first and
\* only one for its region, and no region of a live accessor has been unmapped
\* more than once.
C1_ReleasedExactlyOnce ==
    /\ last.op = "drop" => last.unmaps = 1
    /\ \A s \in Slots : acc[s].unmaps <= 1

\* C2 (as claimed): the region of every live accessor is mapped: no munmap of it
\* has occurred since the accessor was returned, and the accessor make_mut
\* returns is over bytes that are still mapped.
C2_LiveAccessorMapped ==
    /\ \A s \in Slots : acc[s].unmaps = 0 /\ vm[acc[s].raw].mapped
    /\ last.op = "make_mut" => acc[last.slot].kind = "mut" /\ vm[acc[last.slot].raw].mapped

\* C3: when map fails after open has succeeded (ftruncate failed, or mmap
\* returned MAP_FAILED), the descriptor open returned is closed exactly once,
\* as the last OS call before the error is returned, and is closed afterwards.
C3_DescriptorClosedOnFailure ==
    (last.op = "map" /\ ~last.ok /\ last.calls[1].ret >= 0) =>
        /\ CloseCalls(last.calls) = {Len(last.calls)}
        /\ last.calls[Len(last.calls)].args = <<last.calls[1].ret>>
        /\ ~fdt[last.calls[1].ret].open

\* A map call whose mmap failed after open and ftruncate succeeded.
C3_Witness ==
    /\ last.op = "map" /\ ~last.ok /\ last.calls[1].ret >= 0
    /\ \E i \in 1..Len(last.calls) : last.calls[i].fn = "mmap"
    /\ \E i \in 1..Len(last.calls) : last.calls[i].fn = "ftruncate"

\* C4 (as claimed): once every accessor has been dropped, no descriptor opened
\* by map is still open.
C4_NoDescriptorLeak ==
    acc = <<>> => \A f \in Fds : ~fdt[f].open

\* C7 (as claimed): a value written through a mutable accessor's get_inner() is
\* written without a fault and read back through the same accessor.
C7_WriteReadBack ==
    last.op = "write" =>
        /\ fault = "none"
        /\ Load(fs, vm, acc[last.slot].raw) = [fault |-> "none", val |-> last.val]

\* C8 (as claimed): after a write through a mutable accessor, a read through
\* any read-only accessor mapped to the same path yields the written value.
C8_WriteVisibleToReader ==
    (last.op = "write" /\ fault = "none") =>
        \A r \in Slots :
            (acc[r].kind = "ro" /\ acc[r].path = acc[last.slot].path) =>
                Load(fs, vm, acc[r].raw) = [fault |-> "none", val |-> last.val]

\* C9 (as claimed): constructing over a path that does not exist with write =
\* false fails at open: no accessor is returned and no file is created.
C9_NoCreateWithoutWrite ==
    (last.op = "map" /\ ~last.pre.exists /\ ~last.write) =>
        /\ ~last.ok
        /\ Len(last.calls) = 1 /\ last.calls[1].ret < 0
        /\ ~fs[last.path].exists

\* C10: constructing over a path that does not exist with write = true and
\* truncate = true fails only if an OS call failed; otherwise the file exists
\* and is exactly size_of::<T>() bytes long, and the accessor's region is
\* size_of::<T>() bytes that all read as zero.
C10_CreatedZeroFilled ==
    (last.op = "map" /\ ~last.pre.exists /\ last.write /\ last.truncate) =>
        IF last.ok
        THEN /\ fs[last.path].exists
             /\ fs[last.path].len = SizeT
             /\ acc[last.slot].raw = last.ret
             /\ vm[last.ret].mapped
             /\ vm[last.ret].len = SizeT
             /\ vm[last.ret].path = last.path
             /\ Load(fs, vm, last.ret) = [fault |-> "none", val |-> Zeros]
        ELSE \E i \in 1..Len(last.calls) : Failed(last.calls[i])

\* A successful construction with write and truncate over an absent path.
C10_Witness ==
    /\ last.op = "map" /\ ~last.pre.exists /\ last.write /\ last.truncate /\ last.ok
    /\ Len(acc) = last.slot

\* C5: in the shared backend the mapping is released exactly once, and only by
\* the last owner: while any clone is live the region is mapped, and once every
\* wrapper has been dropped it has been unmapped once.
C5_ReleasedOnceByLastOwner ==
    /\ arc.unmaps <= 1
    /\ arc.made => (arc.mapped <=> arc.unmaps = 0)
    /\ (\E w \in Wrappers : wr[w].st = "live") => arc.mapped
    /\ (arc.made /\ \A w \in Wrappers : wr[w].st \in {"none", "dropped"}) => arc.unmaps = 1

\* Two clones dropped on different threads, the mapping released once, and a
\* state before it in which one clone was dropped and the other still live.
C5_Witness ==
    /\ arc.unmaps = 1
    /\ \E w \in Wrappers, c \in Wrappers :
         /\ wr[w].st = "dropped" /\ wr[c].st = "dropped"
         /\ wr[w].th # wr[c].th

\* C6 (as claimed): no two threads hold a live &mut T to the same region at
\* the same time.
C6_NoTwoMutableViews ==
    \A t \in Threads, u \in Threads : (holds[t] /\ holds[u]) => t = u

\* C11 (as claimed): a mutable accessor requested with the write flag not set
\* is refused: MmapMutWrapper::new with write = false never returns an accessor.
C11_MutableNeedsWrite ==
    (last.op = "map" /\ ~last.write /\ last.ok) => acc[last.slot].kind # "mut"

\* C12 (as claimed): make_mut yields a mutable accessor only over a region
\* whose protection permits writes: it is never applied with success to an
\* accessor whose region was mapped without PROT_WRITE.
C12_MakeMutNeedsWritable ==
    [][last'.op = "make_mut" =>
          (acc'[last'.slot].kind = "mut" =>
              /\ vm[acc[last'.slot].raw].mapped
              /\ Bit(vm[acc[last'.slot].raw].prot, PROT_WRITE))]_vars

\* C13 (as claimed): the error map returns tells the failed step: it is -1 if
\* and only if it was mmap that failed, so an open or ftruncate failure is
\* never reported as -1.
C13_ErrorIdentifiesStep ==
    (last.op = "map" /\ ~last.ok) =>
        \A i \in 1..Len(last.calls) :
            Failed(last.calls[i]) => (last.ret = -1 <=> last.calls[i].fn = "mmap")

\* The positions of the calls of fn in a trace of OS calls.
CallsOf(calls, fn) == {i \in 1..Len(calls) : calls[i].fn = fn}

\* C14: one map call makes its OS calls in the order open, ftruncate (exactly
\* when truncate is set and open succeeded), mmap, each at most once; after a
\* call that failed only close follows; map returns Ok exactly when no call
\* failed, and then mmap was its last call.
C14_CallOrder ==
    last.op = "map" =>
        /\ Len(last.calls) >= 1
        /\ last.calls[1].fn = "open"
        /\ \A fn \in {"open", "ftruncate", "mmap"} : Cardinality(CallsOf(last.calls, fn)) <= 1
        /\ \A i \in CallsOf(last.calls, "ftruncate"), j \in CallsOf(last.calls, "mmap") : i < j
        /\ (CallsOf(last.calls, "ftruncate") # {}) <=> (last.truncate /\ last.calls[1].ret >= 0)
        /\ \A i \in 1..Len(last.calls) :
              Failed(last.calls[i]) =>
                  \A j \in (i + 1)..Len(last.calls) : last.calls[j].fn = "close"
        /\ last.ok <=> ~\E i \in 1..Len(last.calls) : Failed(last.calls[i])
        /\ last.ok => last.calls[Len(last.calls)].fn = "mmap"

\* A map call whose ftruncate failed: open, ftruncate, close and nothing more.
C14_Witness ==
    /\ last.op = "map" /\ ~last.ok /\ last.truncate
    /\ Len(last.calls) = 3
    /\ last.calls[2].fn = "ftruncate" /\ last.calls[2].ret < 0

\* C15: no accessor exists unless its mapping succeeded: the address a live
\* accessor holds is never null and never MAP_FAILED; a constructor returns an
\* accessor exactly when map returned Ok, which it does only when no OS call
\* failed, and the accessor then holds the address mmap returned; a failed
\* construction adds no accessor and unmaps nothing.
C15_AccessorOnlyIfMapped ==
    [][/\ \A s \in 1..Len(acc') : acc'[s].raw # NULL /\ acc'[s].raw # MAP_FAILED
       /\ last'.op = "map" =>
            /\ last'.ok <=> Len(acc') = Len(acc) + 1
            /\ last'.ok =>
                 /\ \A i \in 1..Len(last'.calls) : ~Failed(last'.calls[i])
                 /\ last'.calls[Len(last'.calls)].fn = "mmap"
                 /\ last'.calls[Len(last'.calls)].ret = acc'[Len(acc')].raw
                 /\ acc'[Len(acc')].raw \in Addrs
                 /\ vm'[acc'[Len(acc')].raw].mapped
            /\ ~last'.ok => acc' = acc /\ vm' = vm]_vars

\* A construction that failed at mmap while the client holds an accessor.
C15_Witness ==
    /\ last.op = "map" /\ ~last.ok
    /\ Len(acc) >= 1
    /\ \E i \in 1..Len(last.calls) : last.calls[i].fn = "mmap" /\ last.calls[i].ret = MAP_FAILED

C18_BuilderAccumulates ==
    [][/\ last'.op = "builder_new" =>
            /\ builder'.set /\ builder'.path = last'.path
            /\ ~builder'.write /\ ~builder'.truncate
       /\ last'.op = "builder_write" =>
            /\ builder'.write = last'.write
            /\ builder'.set /\ builder'.path = builder.path
            /\ builder'.truncate = builder.truncate
       /\ last'.op = "builder_truncate" =>
            /\ builder'.truncate = last'.truncate
            /\ builder'.set /\ builder'.path = builder.path
            /\ builder'.write = builder.write
       /\ last'.op = "map" =>
            /\ builder.set /\ ~builder'.set
            /\ last'.path = builder.path
            /\ last'.write = builder.write
            /\ last'.truncate = builder.truncate
            /\ last'.calls[1].args[1] = builder.path
            /\ last'.calls[1].args[2] % 4 = (IF builder.write THEN O_RDWR ELSE O_RDONLY)
            /\ CallsOf(last'.calls, "ftruncate") # {} => builder.truncate]_vars

\* A build with both flags set, after write(true) and truncate(true).
C18_Witness ==
    /\ last.op = "map" /\ last.ok /\ last.write /\ last.truncate
    /\ ~builder.set
    /\ CallsOf(last.calls, "ftruncate") # {}

\* C19: dropping an accessor makes exactly one OS call, munmap with the address
\* the accessor holds (the one mmap returned for it) and the length
\* size_of::<T>() its region was mapped with; whatever munmap returns, the drop
\* ends normally: the accessor is gone, the others are kept, nothing faults, no
\* second call is made, and no descriptor or file is touched.
C19_DropUnmapsRegion ==
    [][last'.op = "drop" =>
          /\ Len(last'.calls) = 1
          /\ last'.calls[1].fn = "munmap"
          /\ last'.calls[1].args = <<acc[last'.slot].raw, SizeT>>
          /\ acc[last'.slot].raw \in Addrs
          /\ vm[acc[last'.slot].raw].mapped => vm[acc[last'.slot].raw].len = SizeT
          /\ last'.calls[1].ret \in {0, -1}
          /\ Len(acc') = Len(acc) - 1
          /\ \A i \in 1..Len(acc') :
                acc'[i].raw = acc[IF i < last'.slot THEN i ELSE i + 1].raw
          /\ fault' = "none"
          /\ fs' = fs /\ fdt' = fdt
          /\ last'.calls[1].ret = -1 => vm' = vm]_vars

\* A drop whose munmap failed, with another accessor still held.
C19_Witness ==
    /\ last.op = "drop"
    /\ Len(last.calls) = 1 /\ last.calls[1].ret = -1
    /\ Len(acc) >= 1
    /\ fault = "none"

\* C20: in every state of the OS and whatever the OS decides, map(path) of the
\* flag-less variant makes the same OS calls with the same arguments, returns
\* the same result and leaves the same files, descriptors and regions as
\* map(path, true, true) of the flagged variant; and a successful call is the C
\* idiom open(path, O_RDWR | O_CREAT, 0644); ftruncate(fd, sizeof T);
\* mmap(0, sizeof T, PROT_READ | PROT_WRITE, MAP_SHARED, fd, 0).
C20_VariantsAgree ==
    /\ \A p \in Paths : \A env \in Envs(TRUE) :
          BackendMap(fs, fdt, vm, p, env) = Map(fs, fdt, vm, p, TRUE, TRUE, env)
    /\ (last.op = "map" /\ last.ok) =>
          /\ Len(last.calls) = 3
          /\ last.calls[1].fn = "open"
          /\ last.calls[1].args = <<last.path, O_RDWR + O_CREAT, CreateMode>>
          /\ last.calls[2].fn = "ftruncate"
          /\ last.calls[2].args = <<last.calls[1].ret, SizeT>>
          /\ last.calls[3].fn = "mmap"
          /\ last.calls[3].args =
                 <<NULL, SizeT, PROT_READ + PROT_WRITE, MAP_SHARED, last.calls[1].ret, 0>>

\* The flag-less map has created a file and mapped it, and in the state it left
\* a further call would succeed at the other address.
C20_Witness ==
    /\ last.op = "map" /\ last.ok /\ ~last.pre.exists
    /\ \E env \in Envs(TRUE) : BackendMap(fs, fdt, vm, last.path, env).ok

\* C21 (as claimed): a map call that returns an error leaves the filesystem as
\* it was: no file has been created at the path and the length of an existing
\* file has not changed.
C21_FailureLeavesFiles ==
    (last.op = "map" /\ ~last.ok) =>
        /\ fs[last.path].exists = last.pre.exists
        /\ fs[last.path].len = last.pre.len

\* C22 (as claimed): when a constructor returns an accessor, whatever the
\* flags, the backing file is at least size_of::<T>() bytes long.
C22_FileCoversRegion ==
    (last.op = "map" /\ last.ok) => fs[last.path].len >= SizeT

====
